---- MODULE Spec2Model ----
(***************************************************************************)
(* A model of the GP22 time-to-digital converter driver (src/GP22.cpp).    *)
(*                                                                         *)
(* The driver is single-threaded and synchronous: every public method is   *)
(* one atomic action.  What a method puts on the SPI bus is recorded, in   *)
(* order, in `trace`; `spi` is the state of the SPI peripheral.            *)
(***************************************************************************)
EXTENDS Integers, Sequences, FiniteSets, TLC

VARIABLES
  config,   \* _config[7][4], the cached configuration image
  spi,      \* the SPI peripheral: begun, clock divider, mode, bit order, CS held
  trace,    \* the SPI calls made by the most recent public method, in order
  lastOp,   \* the most recent public method: its name, argument and return value
  chip,     \* the GP22 on the bus, if one is attached: its configuration registers
  conv,     \* the most recent call of measConv: the caller's value, the parameter, the result
  stack     \* the calls of the resolution setters in progress, the innermost last

vars == <<config, spi, trace, lastOp, chip, conv, stack>>

----------------------------------------------------------------------------
(* Bounds of the model *)

\* How many different reply streams the chip side may give to one method.
NumRx == 3

\* How many calls of the resolution setters may be in progress at once.
MaxDepth == 4

\* The bytes the replies are made of (all different, with both extremes).
RxPattern == <<18, 52, 86, 120, 255, 0, 154, 1, 128>>

\* The reply streams of length n: the pattern, rotated.
RxSeqs(n) ==
  { [i \in 1..n |-> RxPattern[((i + k - 1) % Len(RxPattern)) + 1]] : k \in 0..(NumRx - 1) }

Byte == 0..255

\* Values of _config[1][1] at construction: every combination of the low
\* three bits, under the upper five bits 10101 (0xA8 .. 0xAF).
HitsInit == 168..175

\* Values of _config[6][2] at construction: every combination of bit 4 and
\* bit 5, among the other six bits 10..1010 (0x8A, 0x9A, 0xAA, 0xBA).
ResInit == {138, 154, 170, 186}

\* Arguments given to setExpectedHits: around the three valid counts and at
\* the extremes of uint8_t.
HitsArgs == (0..8) \cup {127, 128, 254, 255}

\* Arguments given to readResult by a caller: register numbers as unsigned
\* or signed 8-bit values, around the valid range and at the extremes.
ResultArgs == ((-2)..6) \cup {-128, 127, 128, 254, 255}

\* Values of _config[1][0], the byte testComms compares with, where every
\* received byte is tried against it.
CommsInit == {0, 1, 2, 85, 86, 87, 127, 128, 129, 170, 254, 255}

\* Replies to readStatus where every byte value is tried in each of the two
\* positions, the other byte being all zeros or all ones.
EdgeBytes == {0, 255}

StatusReplies ==
  { <<0, h, l>> : h \in Byte, l \in EdgeBytes } \cup { <<0, h, l>> : h \in EdgeBytes, l \in Byte }

----------------------------------------------------------------------------
(* Wire protocol opcodes *)

OP_POWER_ON_RESET == 80     \* 0x50
OP_INIT_MEASURE   == 112    \* 0x70
OP_READ_STATUS    == 180    \* 0xB4
OP_READ_RESULT    == 176    \* 0xB0
OP_READ_REG5      == 181    \* 0xB5
OP_WRITE_CONFIG   == 128    \* 0x80
CLOCK_DIVIDER     == 6
SPI_MODE1         == 1      \* clock polarity 0, clock phase 1
MSBFIRST          == 1
NUM_CONFIG_REGS   == 7
NUM_RESULT_REGS   == 4

----------------------------------------------------------------------------
(* Arduino bit macros and 8-bit arithmetic *)

Pow2(n) == 2 ^ n

bitRead(value, bit) == (value \div Pow2(bit)) % 2

bitSet(value, bit) == IF bitRead(value, bit) = 1 THEN value ELSE value + Pow2(bit)

bitClear(value, bit) == IF bitRead(value, bit) = 1 THEN value - Pow2(bit) ELSE value

\* Bitwise AND of two bytes.
BitAnd(a, b) ==
  LET bits == { n \in 0..7 : bitRead(a, n) = 1 /\ bitRead(b, n) = 1 }
      RECURSIVE Sum(_)
      Sum(S) == IF S = {} THEN 0
                ELSE LET n == CHOOSE x \in S : TRUE IN Pow2(n) + Sum(S \ {n})
  IN Sum(bits)

\* Conversion of an integer to uint8_t.
ToUint8(n) == n % 256

----------------------------------------------------------------------------
(* The SPI peripheral.  A bus is [spi |-> peripheral state, trace |-> calls] *)

Ev(kind, out, cont, in) == [kind |-> kind, out |-> out, cont |-> cont, in |-> in]

SPI_begin(b) ==
  [spi |-> [b.spi EXCEPT !.begun = TRUE],
   trace |-> Append(b.trace, Ev("begin", 0, FALSE, 0))]

SPI_setClockDivider(b, divider) ==
  [spi |-> [b.spi EXCEPT !.divider = divider],
   trace |-> Append(b.trace, Ev("setClockDivider", divider, FALSE, 0))]

SPI_setDataMode(b, mode) ==
  [spi |-> [b.spi EXCEPT !.mode = mode],
   trace |-> Append(b.trace, Ev("setDataMode", mode, FALSE, 0))]

SPI_setBitOrder(b, order) ==
  [spi |-> [b.spi EXCEPT !.bitOrder = order],
   trace |-> Append(b.trace, Ev("setBitOrder", order, FALSE, 0))]

\* SPI.transfer(pin, data, mode): sends one byte and receives one; with
\* SPI_CONTINUE the chip-select stays asserted, without it it is released.
SPI_transfer(b, out, cont, in) ==
  [spi |-> [b.spi EXCEPT !.held = cont],
   trace |-> Append(b.trace, Ev("transfer", out, cont, in))]

----------------------------------------------------------------------------
(* The FourByte scratch union: 8-, 16- and 32-bit views of the same four   *)
(* bytes, on the little-endian host the driver is built for.               *)

FourByteZero == [i \in 0..3 |-> 0]

FourByte_bit16_0(bit8) == bit8[0] + 256 * bit8[1]

\* A uint32_t is kept as its two 16-bit halves, value = 65536 * hi + lo
\* (the model checker's integers are narrower than 32 unsigned bits).
U32(hi, lo) == [hi |-> hi, lo |-> lo]

FourByte_bit32(bit8) == U32(bit8[2] + 256 * bit8[3], bit8[0] + 256 * bit8[1])

----------------------------------------------------------------------------
(* The chained transfers.  rx is the stream of bytes the bus returns, one  *)
(* per byte sent.  Each returns [bus |-> the bus afterwards, ret |-> value]*)

transfer1B(b, opcode, byte1, rx) ==
  LET s0 == SPI_transfer(b, opcode, TRUE, rx[1])
      s1 == SPI_transfer(s0, byte1, FALSE, rx[2])
      data == [FourByteZero EXCEPT ![0] = rx[2]]
  IN [bus |-> s1, ret |-> data[0]]

\* A slip: the two received bytes are stored the other way round.
transfer2B_swapped(b, opcode, byte1, byte2, rx) ==
  LET s0 == SPI_transfer(b, opcode, TRUE, rx[1])
      s1 == SPI_transfer(s0, byte1, TRUE, rx[2])
      s2 == SPI_transfer(s1, byte2, FALSE, rx[3])
      data == [FourByteZero EXCEPT ![0] = rx[2], ![1] = rx[3]]
  IN [bus |-> s2, ret |-> FourByte_bit16_0(data)]

\* A slip: the last byte is sent with SPI_CONTINUE too.
transfer2B_holdsLast(b, opcode, byte1, byte2, rx) ==
  LET s0 == SPI_transfer(b, opcode, TRUE, rx[1])
      s1 == SPI_transfer(s0, byte1, TRUE, rx[2])
      s2 == SPI_transfer(s1, byte2, TRUE, rx[3])
      data == [FourByteZero EXCEPT ![1] = rx[2], ![0] = rx[3]]
  IN [bus |-> s2, ret |-> FourByte_bit16_0(data)]

transfer2B(b, opcode, byte1, byte2, rx) ==
  LET s0 == SPI_transfer(b, opcode, TRUE, rx[1])
      s1 == SPI_transfer(s0, byte1, TRUE, rx[2])
      s2 == SPI_transfer(s1, byte2, FALSE, rx[3])
      data == [FourByteZero EXCEPT ![1] = rx[2], ![0] = rx[3]]
  IN [bus |-> s2, ret |-> FourByte_bit16_0(data)]

\* A slip: the received bytes are stored in ascending order.
transfer4B_ascending(b, opcode, byte1, byte2, byte3, byte4, rx) ==
  LET s0 == SPI_transfer(b, opcode, TRUE, rx[1])
      s1 == SPI_transfer(s0, byte1, TRUE, rx[2])
      s2 == SPI_transfer(s1, byte2, TRUE, rx[3])
      s3 == SPI_transfer(s2, byte3, TRUE, rx[4])
      s4 == SPI_transfer(s3, byte4, FALSE, rx[5])
      data == [FourByteZero EXCEPT ![0] = rx[2], ![1] = rx[3], ![2] = rx[4], ![3] = rx[5]]
  IN [bus |-> s4, ret |-> FourByte_bit32(data)]

transfer4B(b, opcode, byte1, byte2, byte3, byte4, rx) ==
  LET s0 == SPI_transfer(b, opcode, TRUE, rx[1])
      s1 == SPI_transfer(s0, byte1, TRUE, rx[2])
      s2 == SPI_transfer(s1, byte2, TRUE, rx[3])
      s3 == SPI_transfer(s2, byte3, TRUE, rx[4])
      s4 == SPI_transfer(s3, byte4, FALSE, rx[5])
      data == [FourByteZero EXCEPT ![3] = rx[2], ![2] = rx[3], ![1] = rx[4], ![0] = rx[5]]
  IN [bus |-> s4, ret |-> FourByte_bit32(data)]

----------------------------------------------------------------------------
(* The methods, as functions of the bus, the image and the bytes received *)

\* A slip: the loop stops one register early.
RECURSIVE updateConfigFrom_stopsEarly(_, _, _, _)
updateConfigFrom_stopsEarly(i, b, cfg, rx) ==
  IF i < NUM_CONFIG_REGS - 1
    THEN LET t == transfer4B(b, OP_WRITE_CONFIG + i,
                             cfg[i][0], cfg[i][1], cfg[i][2], cfg[i][3],
                             SubSeq(rx, 5 * i + 1, 5 * i + 5))
         IN updateConfigFrom_stopsEarly(i + 1, t.bus, cfg, rx)
    ELSE b

\* for (i = 0; i < 7; i++) transfer4B(0x80 + i, _config[i][0..3]);
\* rx holds the 35 bytes received meanwhile, which the loop discards.
RECURSIVE updateConfigFrom(_, _, _, _)
updateConfigFrom(i, b, cfg, rx) ==
  IF i < NUM_CONFIG_REGS
    THEN LET t == transfer4B(b, OP_WRITE_CONFIG + i,
                             cfg[i][0], cfg[i][1], cfg[i][2], cfg[i][3],
                             SubSeq(rx, 5 * i + 1, 5 * i + 5))
         IN updateConfigFrom(i + 1, t.bus, cfg, rx)
    ELSE b

\* A slip: the loop starts at register 2.
updateConfig_fromTwo(b, cfg, rx) == updateConfigFrom(2, b, cfg, rx)

updateConfig(b, cfg, rx) == updateConfigFrom(0, b, cfg, rx)

\* A slip: the registers are written before the power-on reset.
begin_resetsLast(b, cfg, rx) ==
  LET s0 == SPI_begin(b)
      s1 == SPI_setClockDivider(s0, CLOCK_DIVIDER)
      s2 == SPI_setDataMode(s1, SPI_MODE1)
      s3 == SPI_setBitOrder(s2, MSBFIRST)
      s4 == updateConfig(s3, cfg, SubSeq(rx, 2, Len(rx)))
  IN SPI_transfer(s4, OP_POWER_ON_RESET, FALSE, rx[1])

\* rx[1] answers the reset opcode, the other 35 bytes the register writes.
begin(b, cfg, rx) ==
  LET s0 == SPI_begin(b)
      s1 == SPI_setClockDivider(s0, CLOCK_DIVIDER)
      s2 == SPI_setDataMode(s1, SPI_MODE1)
      s3 == SPI_setBitOrder(s2, MSBFIRST)
      s4 == SPI_transfer(s3, OP_POWER_ON_RESET, FALSE, rx[1])
  IN updateConfig(s4, cfg, SubSeq(rx, 2, Len(rx)))

measure(b, rx) == SPI_transfer(b, OP_INIT_MEASURE, FALSE, rx[1])

readStatus(b, rx) == transfer2B(b, OP_READ_STATUS, 0, 0, rx)

\* A slip: the range check lets register 4 through.
readResult_offByOne(b, resultRegister, rx) ==
  IF resultRegister <= NUM_RESULT_REGS /\ resultRegister >= 0
    THEN LET readCode == ToUint8(OP_READ_RESULT + resultRegister)
         IN transfer4B(b, readCode, 0, 0, 0, 0, rx)
    ELSE [bus |-> b, ret |-> U32(0, 0)]

\* resultRegister is a uint8_t, so `resultRegister >= 0` always holds.
readResult(b, resultRegister, rx) ==
  IF resultRegister < NUM_RESULT_REGS /\ resultRegister >= 0
    THEN LET readCode == ToUint8(OP_READ_RESULT + resultRegister)
         IN transfer4B(b, readCode, 0, 0, 0, 0, rx)
    ELSE [bus |-> b, ret |-> U32(0, 0)]

\* A slip: the byte is compared with the next byte of the register.
testComms_nextByte(b, cfg, rx) ==
  LET t == transfer1B(b, OP_READ_REG5, 0, rx)
  IN [bus |-> t.bus, ret |-> (t.ret = cfg[1][1])]

testComms(b, cfg, rx) ==
  LET t == transfer1B(b, OP_READ_REG5, 0, rx)
  IN [bus |-> t.bus, ret |-> (t.ret = cfg[1][0])]

----------------------------------------------------------------------------
(* The configuration accessors, as functions of the image *)

\* A slip: the encoding is stored as the whole byte.
setExpectedHits_wholeByte(cfg, hits) ==
  LET configPiece == cfg[1][1]
      piece == CASE hits = 2 -> 2
                 [] hits = 3 -> 3
                 [] hits = 4 -> 4
                 [] OTHER    -> configPiece
  IN [cfg EXCEPT ![1][1] = piece]

\* A slip in case 4: bit 1 is left as it was.
setExpectedHits_keepsBit1(cfg, hits) ==
  LET configPiece == cfg[1][1]
      piece == CASE hits = 2 -> bitClear(bitSet(bitClear(configPiece, 0), 1), 2)
                 [] hits = 3 -> bitClear(bitSet(bitSet(configPiece, 0), 1), 2)
                 [] hits = 4 -> bitSet(bitClear(configPiece, 0), 2)
                 [] OTHER    -> configPiece
  IN [cfg EXCEPT ![1][1] = piece]

\* A slip in the switch: a default branch that clears the three bits.
setExpectedHits_defaultClears(cfg, hits) ==
  LET configPiece == cfg[1][1]
      piece == CASE hits = 2 -> bitClear(bitSet(bitClear(configPiece, 0), 1), 2)
                 [] hits = 3 -> bitClear(bitSet(bitSet(configPiece, 0), 1), 2)
                 [] hits = 4 -> bitSet(bitClear(bitClear(configPiece, 0), 1), 2)
                 [] OTHER    -> bitClear(bitClear(bitClear(configPiece, 0), 1), 2)
  IN [cfg EXCEPT ![1][1] = piece]

setExpectedHits(cfg, hits) ==
  LET configPiece == cfg[1][1]
      piece == CASE hits = 2 -> bitClear(bitSet(bitClear(configPiece, 0), 1), 2)
                 [] hits = 3 -> bitClear(bitSet(bitSet(configPiece, 0), 1), 2)
                 [] hits = 4 -> bitSet(bitClear(bitClear(configPiece, 0), 1), 2)
                 [] OTHER    -> configPiece
  IN [cfg EXCEPT ![1][1] = piece]

getExpectedHits(cfg) == BitAnd(cfg[1][1], 7)

isDoubleRes(cfg) == BitAnd(cfg[6][2], 16) # 0

\* A slip: the mask of bit 6 instead of bit 5.
isQuadRes_bit6(cfg) == BitAnd(cfg[6][2], 64) # 0

isQuadRes(cfg) == BitAnd(cfg[6][2], 32) # 0

isSingleRes(cfg) == ~isDoubleRes(cfg) /\ ~isQuadRes(cfg)

\* Each setter reads _config[6][2] into the local configPiece first, calls
\* the other setter (which writes _config[6][2]) and then stores its local.
RECURSIVE setDoubleRes(_, _)
RECURSIVE setQuadRes(_, _)

\* A slip: disabling double resolution clears the quad bit too.
setDoubleRes_clearsBoth(cfg, on) ==
  LET configPiece == cfg[6][2]
      piece == IF on THEN bitSet(configPiece, 4)
                     ELSE bitClear(bitClear(configPiece, 4), 5)
      after == IF on THEN setQuadRes(cfg, FALSE) ELSE cfg
  IN [after EXCEPT ![6][2] = piece]

setDoubleRes(cfg, on) ==
  LET configPiece == cfg[6][2]
      piece == IF on THEN bitSet(configPiece, 4) ELSE bitClear(configPiece, 4)
      after == IF on THEN setQuadRes(cfg, FALSE) ELSE cfg
  IN [after EXCEPT ![6][2] = piece]

\* A slip: when enabling, the local is not stored after the nested call.
setQuadRes_dropsStore(cfg, on) ==
  LET configPiece == cfg[6][2]
      piece == IF on THEN bitSet(configPiece, 5) ELSE bitClear(configPiece, 5)
  IN IF on THEN setDoubleRes(cfg, FALSE) ELSE [cfg EXCEPT ![6][2] = piece]

setQuadRes(cfg, on) ==
  LET configPiece == cfg[6][2]
      piece == IF on THEN bitSet(configPiece, 5) ELSE bitClear(configPiece, 5)
      after == IF on THEN setDoubleRes(cfg, FALSE) ELSE cfg
  IN [after EXCEPT ![6][2] = piece]

setSingleRes(cfg, on) ==
  LET configPiece == cfg[6][2]
      after == IF on THEN setQuadRes(setDoubleRes(cfg, FALSE), FALSE) ELSE cfg
  IN [after EXCEPT ![6][2] = configPiece]

----------------------------------------------------------------------------
(* Single-precision arithmetic.  A float is [mant, exp], of value           *)
(* mant * 2^exp with 2^23 <= mant < 2^24, or mant = 0 for zero.  Results    *)
(* are rounded to nearest, ties to even.  The values measConv works on are  *)
(* far from the overflow and underflow thresholds, and never negative.      *)

F32(mant, exp) == [mant |-> mant, exp |-> exp]

F32Zero == F32(0, 0)

\* The number of bits of n.
RECURSIVE BitLen(_)
BitLen(n) == IF n = 0 THEN 0 ELSE 1 + BitLen(n \div 2)

\* q, followed by the discarded bits r of which `half` is the first,
\* rounded to nearest, ties to even.
RoundToEven(q, r, half) ==
  IF r > half \/ (r = half /\ q % 2 = 1) THEN q + 1 ELSE q

\* A rounded mantissa that has reached 2^24 is renormalised.
Normal(mant, exp) ==
  IF mant = Pow2(24) THEN F32(Pow2(23), exp + 1) ELSE F32(mant, exp)

\* (float)input, for a uint32_t.
FloatOfU32(u) ==
  IF u.hi = 0 /\ u.lo = 0 THEN F32Zero
  ELSE IF u.hi < 256
    THEN LET v == 65536 * u.hi + u.lo
             k == 24 - BitLen(v)
         IN F32(v * Pow2(k), -k)
    ELSE LET s == BitLen(u.hi) - 8
             q == u.hi * Pow2(16 - s) + (u.lo \div Pow2(s))
             r == u.lo % Pow2(s)
         IN Normal(RoundToEven(q, r, Pow2(s - 1)), s)

\* a * b in single precision.  The 48-bit product of the mantissas is
\* formed from their 12-bit halves.
FloatMul(a, b) ==
  IF a.mant = 0 \/ b.mant = 0 THEN F32Zero
  ELSE LET a1 == a.mant \div 4096
           a0 == a.mant % 4096
           b1 == b.mant \div 4096
           b0 == b.mant % 4096
           mid == a1 * b0 + a0 * b1
           L == (mid % 4096) * 4096 + a0 * b0
           high == a1 * b1 + (mid \div 4096) + (L \div Pow2(24))
           low == L % Pow2(24)
           e == a.exp + b.exp
       IN IF high >= Pow2(23)
            THEN Normal(RoundToEven(high, low, Pow2(23)), e + 24)
            ELSE Normal(RoundToEven(2 * high + (low \div Pow2(23)),
                                    low % Pow2(23), Pow2(22)), e + 23)

\* The bits of a float, as a uint32_t: sign 0, 8 bits of biased exponent,
\* 23 bits of fraction.
FloatBits(f) ==
  IF f.mant = 0 THEN U32(0, 0)
  ELSE U32((f.exp + 150) * 128 + ((f.mant - Pow2(23)) \div 65536), f.mant % 65536)

----------------------------------------------------------------------------
(* measConv: a Q16.16 count of 4 MHz clock periods, in microseconds *)

\* float qConv = pow(2.0, -16);
qConv == F32(Pow2(23), -39)

\* float tRef = (1.0) / (4000000.0): the float nearest to 2.5e-7.
tRef == F32(8796093, -45)

\* float timeBase = 1000000.0;
timeBase == F32(16000000, -4)

\* A slip: the Q16.16 conversion factor is left out.
measConv_noQConv(input) ==
  FloatMul(FloatMul(FloatOfU32(input), tRef), timeBase)

\* return ((float)input) * tRef * qConv * timeBase;
measConv(input) ==
  FloatMul(FloatMul(FloatMul(FloatOfU32(input), tRef), qConv), timeBase)

\* A value a caller computes, wider than 32 bits: top * 2^32 + hi * 2^16 + lo.
Raw(top, hi, lo) == [top |-> top, hi |-> hi, lo |-> lo]

\* Its conversion to the uint32_t parameter: the value modulo 2^32.
ToUint32(raw) == U32(raw.hi, raw.lo)

\* No call of measConv yet.
NoConv == [raw |-> Raw(0, 0, 0), input |-> U32(0, 0), result |-> F32Zero]

----------------------------------------------------------------------------
(* The chip on the bus.  It stores the 4 payload bytes of each write of a  *)
(* configuration register (0x80+n), loses them on a power-on reset (0x50)  *)
(* and answers 0xB5 with the first byte of configuration register 1.       *)

ChipReset == [i \in 0..6 |-> [j \in 0..3 |-> 0]]

\* No chip: the bus answers anything and keeps nothing.
NoChip == [attached |-> FALSE, regs |-> ChipReset, written |-> {}]

\* A chip after power-up, no register written yet.
ChipFresh == [attached |-> TRUE, regs |-> ChipReset, written |-> {}]

\* The chip after one transaction, bytes being the bytes sent in it.
ChipExec(c, bytes) ==
  IF Len(bytes) = 1 /\ bytes[1] = OP_POWER_ON_RESET
    THEN [c EXCEPT !.regs = ChipReset, !.written = {}]
  ELSE IF Len(bytes) = 5 /\ bytes[1] \in OP_WRITE_CONFIG..(OP_WRITE_CONFIG + 6)
    THEN LET n == bytes[1] - OP_WRITE_CONFIG
         IN [c EXCEPT !.regs[n] = [j \in 0..3 |-> bytes[j + 2]],
                      !.written = @ \cup {n}]
  ELSE c

\* The chip after the calls tr[k..]; txn holds the bytes of the transaction
\* that is open (chip-select held) at tr[k].
RECURSIVE ChipRun(_, _, _, _)
ChipRun(c, tr, k, txn) ==
  IF k > Len(tr) THEN c
  ELSE IF tr[k].kind # "transfer" THEN ChipRun(c, tr, k + 1, txn)
  ELSE LET bytes == Append(txn, tr[k].out)
       IN IF tr[k].cont
            THEN ChipRun(c, tr, k + 1, bytes)
            ELSE ChipRun(ChipExec(c, bytes), tr, k + 1, << >>)

ChipAfter(c, tr) == IF c.attached THEN ChipRun(c, tr, 1, << >>) ELSE c

\* What the bus returns to testComms: the chip's answer to 0xB5 after any
\* byte during the opcode, or anything when no chip is attached.
TestCommsReplies(c) ==
  IF c.attached
    THEN { <<rx[1], c.regs[1][0]>> : rx \in RxSeqs(2) }
    ELSE RxSeqs(2)

----------------------------------------------------------------------------
(* The state after construction *)

\* A configuration image: 28 different bytes, with the two bytes the
\* accessors work on, _config[1][1] and _config[6][2], as given.
ConfigImage(hitsByte, resByte) ==
  [i \in 0..6 |-> [j \in 0..3 |->
     IF i = 1 /\ j = 1 THEN hitsByte
     ELSE IF i = 6 /\ j = 2 THEN resByte
     ELSE IF i = 1 /\ j = 0 THEN 86
     ELSE 100 + 4 * i + j]]

SpiIdle == [begun |-> FALSE, divider |-> -1, mode |-> -1, bitOrder |-> -1, held |-> FALSE]

\* A call of a public method.  The argument is an integer (a bool as 1 or
\* 0) and the return value a U32, so that every call has the same shape.
Op(name, arg, ret) == [op |-> name, arg |-> arg, ret |-> ret]

BoolInt(b) == IF b THEN 1 ELSE 0

RetVoid == U32(0, 0)

RetInt(v) == U32(0, v)

RetBool(b) == U32(0, BoolInt(b))

Init ==
  /\ config \in { ConfigImage(h, r) : h \in HitsInit, r \in ResInit }
  /\ spi = SpiIdle
  /\ trace = << >>
  /\ lastOp = Op("GP22", 0, RetVoid)
  /\ chip = NoChip
  /\ conv = NoConv
  /\ stack = << >>

\* The bus as a method finds it: the peripheral as it is, nothing sent yet.
Bus == [spi |-> spi, trace |-> << >>]

----------------------------------------------------------------------------
(* One action per public method *)

Call_begin ==
  \E rx \in RxSeqs(36) :
    LET b == begin(Bus, config, rx)
    IN /\ spi' = b.spi
       /\ trace' = b.trace
       /\ lastOp' = Op("begin", 0, RetVoid)
       /\ UNCHANGED config
       /\ chip' = ChipAfter(chip, trace')
       /\ UNCHANGED <<conv, stack>>

Call_measure ==
  \E rx \in RxSeqs(1) :
    LET b == measure(Bus, rx)
    IN /\ spi' = b.spi
       /\ trace' = b.trace
       /\ lastOp' = Op("measure", 0, RetVoid)
       /\ UNCHANGED config
       /\ chip' = ChipAfter(chip, trace')
       /\ UNCHANGED <<conv, stack>>

ReadStatusWith(replies) ==
  \E rx \in replies :
    LET t == readStatus(Bus, rx)
    IN /\ spi' = t.bus.spi
       /\ trace' = t.bus.trace
       /\ lastOp' = Op("readStatus", 0, RetInt(t.ret))
       /\ UNCHANGED config
       /\ chip' = ChipAfter(chip, trace')
       /\ UNCHANGED <<conv, stack>>

Call_readStatus == ReadStatusWith(RxSeqs(3))

\* readStatus on a bus that may answer the dummy bytes with any byte.
Call_readStatusAnyReply == ReadStatusWith(StatusReplies)

\* The caller's argument is converted to the uint8_t parameter.
Call_readResult ==
  \E n \in ResultArgs, rx \in RxSeqs(5) :
    LET t == readResult(Bus, ToUint8(n), rx)
    IN /\ spi' = t.bus.spi
       /\ trace' = t.bus.trace
       /\ lastOp' = Op("readResult", n, t.ret)
       /\ UNCHANGED config
       /\ chip' = ChipAfter(chip, trace')
       /\ UNCHANGED <<conv, stack>>

TestCommsWith(replies) ==
  \E rx \in replies :
    LET t == testComms(Bus, config, rx)
    IN /\ spi' = t.bus.spi
       /\ trace' = t.bus.trace
       /\ lastOp' = Op("testComms", 0, RetBool(t.ret))
       /\ UNCHANGED config
       /\ chip' = ChipAfter(chip, trace')
       /\ UNCHANGED <<conv, stack>>

Call_testComms == TestCommsWith(TestCommsReplies(chip))

\* testComms on a bus that may answer the dummy byte with any byte.
Call_testCommsAnyReply == TestCommsWith({ <<0, r>> : r \in Byte })

Call_updateConfig ==
  \E rx \in RxSeqs(35) :
    LET b == updateConfig(Bus, config, rx)
    IN /\ spi' = b.spi
       /\ trace' = b.trace
       /\ lastOp' = Op("updateConfig", 0, RetVoid)
       /\ UNCHANGED config
       /\ chip' = ChipAfter(chip, trace')
       /\ UNCHANGED <<conv, stack>>

\* A slip: the setter pushes the image to the chip itself.
Call_setExpectedHits_pushes ==
  \E hits \in HitsArgs, rx \in RxSeqs(35) :
    LET b == updateConfig(Bus, setExpectedHits(config, hits), rx)
    IN /\ config' = setExpectedHits(config, hits)
       /\ spi' = b.spi
       /\ trace' = b.trace
       /\ lastOp' = Op("setExpectedHits", hits, RetVoid)
       /\ chip' = ChipAfter(chip, trace')
       /\ UNCHANGED <<conv, stack>>

Call_setExpectedHits ==
  \E hits \in HitsArgs :
    /\ config' = setExpectedHits(config, hits)
    /\ trace' = << >>
    /\ lastOp' = Op("setExpectedHits", hits, RetVoid)
    /\ UNCHANGED spi
    /\ chip' = ChipAfter(chip, trace')
    /\ UNCHANGED <<conv, stack>>

Call_getExpectedHits ==
  /\ trace' = << >>
  /\ lastOp' = Op("getExpectedHits", 0, RetInt(getExpectedHits(config)))
  /\ UNCHANGED <<config, spi>>
  /\ chip' = ChipAfter(chip, trace')
  /\ UNCHANGED <<conv, stack>>

Call_setSingleRes ==
  \E on \in BOOLEAN :
    /\ config' = setSingleRes(config, on)
    /\ trace' = << >>
    /\ lastOp' = Op("setSingleRes", BoolInt(on), RetVoid)
    /\ UNCHANGED spi
    /\ chip' = ChipAfter(chip, trace')
    /\ UNCHANGED <<conv, stack>>

Call_isSingleRes ==
  /\ trace' = << >>
  /\ lastOp' = Op("isSingleRes", 0, RetBool(isSingleRes(config)))
  /\ UNCHANGED <<config, spi>>
  /\ chip' = ChipAfter(chip, trace')
  /\ UNCHANGED <<conv, stack>>

Call_setDoubleRes ==
  \E on \in BOOLEAN :
    /\ config' = setDoubleRes(config, on)
    /\ trace' = << >>
    /\ lastOp' = Op("setDoubleRes", BoolInt(on), RetVoid)
    /\ UNCHANGED spi
    /\ chip' = ChipAfter(chip, trace')
    /\ UNCHANGED <<conv, stack>>

Call_isDoubleRes ==
  /\ trace' = << >>
  /\ lastOp' = Op("isDoubleRes", 0, RetBool(isDoubleRes(config)))
  /\ UNCHANGED <<config, spi>>
  /\ chip' = ChipAfter(chip, trace')
  /\ UNCHANGED <<conv, stack>>

Call_setQuadRes ==
  \E on \in BOOLEAN :
    /\ config' = setQuadRes(config, on)
    /\ trace' = << >>
    /\ lastOp' = Op("setQuadRes", BoolInt(on), RetVoid)
    /\ UNCHANGED spi
    /\ chip' = ChipAfter(chip, trace')
    /\ UNCHANGED <<conv, stack>>

Call_isQuadRes ==
  /\ trace' = << >>
  /\ lastOp' = Op("isQuadRes", 0, RetBool(isQuadRes(config)))
  /\ UNCHANGED <<config, spi>>
  /\ chip' = ChipAfter(chip, trace')
  /\ UNCHANGED <<conv, stack>>

Next ==
  \/ Call_begin
  \/ Call_measure
  \/ Call_readStatus
  \/ Call_readResult
  \/ Call_testComms
  \/ Call_updateConfig
  \/ Call_setExpectedHits
  \/ Call_getExpectedHits
  \/ Call_setSingleRes
  \/ Call_isSingleRes
  \/ Call_setDoubleRes
  \/ Call_isDoubleRes
  \/ Call_setQuadRes
  \/ Call_isQuadRes

Spec == Init /\ [][Next]_vars

----------------------------------------------------------------------------
(* The accessors alone, from every one of the 256 values of the byte they   *)
(* work on *)

InitHits ==
  /\ config \in { ConfigImage(h, 0) : h \in Byte }
  /\ spi = SpiIdle
  /\ trace = << >>
  /\ lastOp = Op("GP22", 0, RetVoid)
  /\ chip = NoChip
  /\ conv = NoConv
  /\ stack = << >>

NextHits ==
  \/ Call_setExpectedHits
  \/ Call_getExpectedHits

SpecHits == InitHits /\ [][NextHits]_vars

InitRes ==
  /\ config \in { ConfigImage(0, r) : r \in Byte }
  /\ spi = SpiIdle
  /\ trace = << >>
  /\ lastOp = Op("GP22", 0, RetVoid)
  /\ chip = NoChip
  /\ conv = NoConv
  /\ stack = << >>

NextRes ==
  \/ Call_setSingleRes
  \/ Call_isSingleRes
  \/ Call_setDoubleRes
  \/ Call_isDoubleRes
  \/ Call_setQuadRes
  \/ Call_isQuadRes

SpecRes == InitRes /\ [][NextRes]_vars

----------------------------------------------------------------------------
(* The driver with a chip on the bus: initialisation, the push of the      *)
(* image, the communication test and the accessors                         *)

InitChip ==
  /\ config = ConfigImage(170, 154)
  /\ spi = SpiIdle
  /\ trace = << >>
  /\ lastOp = Op("GP22", 0, RetVoid)
  /\ chip = ChipFresh
  /\ conv = NoConv
  /\ stack = << >>

NextChip ==
  \/ Call_begin
  \/ Call_updateConfig
  \/ Call_testComms
  \/ Call_setExpectedHits
  \/ Call_getExpectedHits
  \/ Call_setSingleRes
  \/ Call_isSingleRes
  \/ Call_setDoubleRes
  \/ Call_isDoubleRes
  \/ Call_setQuadRes
  \/ Call_isQuadRes

SpecChip == InitChip /\ [][NextChip]_vars

----------------------------------------------------------------------------
(* The communication test alone, every received byte against the cached    *)
(* byte *)

InitComms ==
  /\ config \in { [ConfigImage(170, 154) EXCEPT ![1][0] = c] : c \in CommsInit }
  /\ spi = SpiIdle
  /\ trace = << >>
  /\ lastOp = Op("GP22", 0, RetVoid)
  /\ chip = NoChip
  /\ conv = NoConv
  /\ stack = << >>

NextComms == Call_testCommsAnyReply

SpecComms == InitComms /\ [][NextComms]_vars

----------------------------------------------------------------------------
(* The status read alone, every byte value in each position of the reply *)

InitStatus ==
  /\ config = ConfigImage(170, 154)
  /\ spi = SpiIdle
  /\ trace = << >>
  /\ lastOp = Op("GP22", 0, RetVoid)
  /\ chip = NoChip
  /\ conv = NoConv
  /\ stack = << >>

NextStatus == Call_readStatusAnyReply

SpecStatus == InitStatus /\ [][NextStatus]_vars

----------------------------------------------------------------------------
(* The conversion alone, on values a caller may pass *)

\* One second of 4 MHz clock periods in Q16.16: 4,000,000 * 65536, which is
\* 61 * 2^32 + 2304 * 2^16.
OneSecondRaw == Raw(61, 2304, 0)

\* The values passed to measConv: within 32 bits (top = 0) and beyond, the
\* halves at the extremes, at powers of two and where (float) has to round.
MeasTops == {0, 1, 61}

MeasHis == {0, 1, 4, 255, 256, 2304, 32768, 65535}

MeasLos == {0, 1, 2, 3, 128, 129, 32768, 65535}

MeasArgs == { Raw(t, h, l) : t \in MeasTops, h \in MeasHis, l \in MeasLos }

\* The caller's value is converted to the uint32_t parameter.
Call_measConv ==
  \E raw \in MeasArgs :
    LET input == ToUint32(raw)
        result == measConv(input)
    IN /\ conv' = [raw |-> raw, input |-> input, result |-> result]
       /\ trace' = << >>
       /\ lastOp' = Op("measConv", 0, FloatBits(result))
       /\ UNCHANGED <<config, spi, stack>>
       /\ chip' = ChipAfter(chip, trace')

InitConv ==
  /\ config = ConfigImage(170, 154)
  /\ spi = SpiIdle
  /\ trace = << >>
  /\ lastOp = Op("GP22", 0, RetVoid)
  /\ chip = NoChip
  /\ conv = NoConv
  /\ stack = << >>

NextConv == Call_measConv

SpecConv == InitConv /\ [][NextConv]_vars

----------------------------------------------------------------------------
(* The resolution setters step by step: a call loads its local, makes its   *)
(* nested calls one after the other and stores the local when it returns.   *)
(* The atomic setDoubleRes, setQuadRes and setSingleRes above are the       *)
(* results of these steps.                                                  *)

SetterNames == {"setSingleRes", "setDoubleRes", "setQuadRes"}

Nested(fn, on) == [fn |-> fn, on |-> on]

\* A slip: the nested call is given `on` itself.
NestedCalls_passesOn(fn, on) ==
  IF ~on THEN << >>
  ELSE IF fn = "setSingleRes" THEN << Nested("setDoubleRes", on), Nested("setQuadRes", on) >>
  ELSE IF fn = "setDoubleRes" THEN << Nested("setQuadRes", on) >>
  ELSE << Nested("setDoubleRes", on) >>

\* The calls the body of fn(on) makes, in order.
NestedCalls(fn, on) ==
  IF ~on THEN << >>
  ELSE IF fn = "setSingleRes" THEN << Nested("setDoubleRes", FALSE), Nested("setQuadRes", FALSE) >>
  ELSE IF fn = "setDoubleRes" THEN << Nested("setQuadRes", FALSE) >>
  ELSE << Nested("setDoubleRes", FALSE) >>

\* The local configPiece of fn(on): the byte loaded at entry, with the
\* function's bit set or cleared in it.
LocalPiece(fn, on, byte) ==
  IF fn = "setSingleRes" THEN byte
  ELSE LET bit == IF fn = "setDoubleRes" THEN 4 ELSE 5
       IN IF on THEN bitSet(byte, bit) ELSE bitClear(byte, bit)

\* A call in progress; `next` is the nested call it makes next.
Frame(fn, on, byte) ==
  [fn |-> fn, on |-> on, configPiece |-> LocalPiece(fn, on, byte), next |-> 1]

\* A caller calls one of the setters.
Setter_enter ==
  \E fn \in SetterNames, on \in BOOLEAN :
    /\ stack = << >>
    /\ stack' = << Frame(fn, on, config[6][2]) >>
    /\ trace' = << >>
    /\ lastOp' = Op(fn, BoolInt(on), RetVoid)
    /\ UNCHANGED <<config, spi, conv>>
    /\ chip' = ChipAfter(chip, trace')

\* The innermost call makes its next nested call.
Setter_call ==
  /\ stack # << >>
  /\ Len(stack) < MaxDepth
  /\ LET top == stack[Len(stack)]
         calls == NestedCalls(top.fn, top.on)
     IN /\ top.next <= Len(calls)
        /\ stack' = Append([stack EXCEPT ![Len(stack)].next = top.next + 1],
                           Frame(calls[top.next].fn, calls[top.next].on, config[6][2]))
  /\ UNCHANGED <<config, spi, trace, lastOp, chip, conv>>

\* The innermost call has made its nested calls: it stores its local and
\* returns.
Setter_return ==
  /\ stack # << >>
  /\ LET top == stack[Len(stack)]
     IN /\ top.next > Len(NestedCalls(top.fn, top.on))
        /\ config' = [config EXCEPT ![6][2] = top.configPiece]
  /\ stack' = SubSeq(stack, 1, Len(stack) - 1)
  /\ UNCHANGED <<spi, trace, lastOp, chip, conv>>

InitCalls ==
  /\ config \in { ConfigImage(0, r) : r \in Byte }
  /\ spi = SpiIdle
  /\ trace = << >>
  /\ lastOp = Op("GP22", 0, RetVoid)
  /\ chip = NoChip
  /\ conv = NoConv
  /\ stack = << >>

NextCalls ==
  \/ Setter_enter
  \/ Setter_call
  \/ Setter_return

\* A call in progress keeps running: the program is sequential and nothing
\* else can hold it up.
SpecCalls ==
  InitCalls /\ [][NextCalls]_vars /\ WF_vars(Setter_call) /\ WF_vars(Setter_return)

----------------------------------------------------------------------------
(* Properties of the resolution accessors *)

\* The record o is a call of the method `name` with the argument arg.
Called(o, name, arg) == o.op = name /\ o.arg = arg

DoubleBit(cfg) == bitRead(cfg[6][2], 4) = 1

QuadBit(cfg) == bitRead(cfg[6][2], 5) = 1

AtMostOneRes(cfg) == ~(DoubleBit(cfg) /\ QuadBit(cfg))

\* C1: from an image in which at most one of bit 4 (double) and bit 5
\* (quad) of config[6][2] is set, no call of setSingleRes, setDoubleRes or
\* setQuadRes leads to an image in which both are set.
C1_AtMostOneResKept ==
  [][AtMostOneRes(config) => AtMostOneRes(config')]_vars

\* C2: setQuadRes(true) called right after setDoubleRes(true) leaves the
\* quad bit set and the double bit clear.
C2_DoubleThenQuad ==
  [][(Called(lastOp, "setDoubleRes", 1) /\ Called(lastOp', "setQuadRes", 1))
       => (QuadBit(config') /\ ~DoubleBit(config')
           /\ isQuadRes(config') /\ ~isDoubleRes(config'))]_vars

\* C3: setSingleRes(true), called when the double bit or the quad bit is
\* set, clears both, so that isSingleRes() is true afterwards.
C3_SingleClearsBoth ==
  [][(Called(lastOp', "setSingleRes", 1) /\ (DoubleBit(config) \/ QuadBit(config)))
       => (~DoubleBit(config') /\ ~QuadBit(config') /\ isSingleRes(config'))]_vars

\* C14: isSingleRes() is true exactly if neither bit 4 (double) nor bit 5
\* (quad) of config[6][2] is set, in every state, and that is what a call
\* of isSingleRes returns.
C14_SingleIffNeither ==
  /\ isSingleRes(config) <=> (~DoubleBit(config) /\ ~QuadBit(config))
  /\ lastOp.op = "isSingleRes"
       => (lastOp.ret.lo = 1) <=> (~DoubleBit(config) /\ ~QuadBit(config))

\* isSingleRes has returned true on 0xCF, every bit set but the two.
C14_Witness ==
  /\ lastOp.op = "isSingleRes"
  /\ config[6][2] = 207
  /\ lastOp.ret.lo = 1

\* The byte with the given bit cleared, by arithmetic on its value.
WithoutBit(byte, bit) == byte - ((byte \div Pow2(bit)) % 2) * Pow2(bit)

\* C15: setDoubleRes(false) clears bit 4 of config[6][2] and changes
\* nothing else; setQuadRes(false) clears bit 5 and changes nothing else.
C15_DisableClearsOneBit ==
  [][/\ Called(lastOp', "setDoubleRes", 0)
          => config' = [config EXCEPT ![6][2] = WithoutBit(config[6][2], 4)]
     /\ Called(lastOp', "setQuadRes", 0)
          => config' = [config EXCEPT ![6][2] = WithoutBit(config[6][2], 5)]]_vars

\* setDoubleRes(false) has left 0xEF: bit 4 clear, bit 5 still set.
C15_Witness ==
  /\ Called(lastOp, "setDoubleRes", 0)
  /\ config[6][2] = 239

\* C18: setDoubleRes(true) leaves bit 4 of config[6][2] set and
\* setQuadRes(true) leaves bit 5 set, whatever the byte was.
C18_EnableSetsOwnBit ==
  /\ Called(lastOp, "setDoubleRes", 1) => (DoubleBit(config) /\ isDoubleRes(config))
  /\ Called(lastOp, "setQuadRes", 1) => (QuadBit(config) /\ isQuadRes(config))

\* setQuadRes(true) has left bit 5 set in a byte whose other bits are clear.
C18_Witness ==
  /\ Called(lastOp, "setQuadRes", 1)
  /\ config[6][2] = 32
  /\ isQuadRes(config)

----------------------------------------------------------------------------
(* Properties of the expected-hits accessors *)

\* The low three bits of config[1][1] that stand for a count of hits.
HitsEncoding(hits) == CASE hits = 2 -> <<0, 1, 0>>
                        [] hits = 3 -> <<1, 1, 0>>
                        [] hits = 4 -> <<0, 0, 1>>

LowThreeBits(cfg) == <<bitRead(cfg[1][1], 0), bitRead(cfg[1][1], 1), bitRead(cfg[1][1], 2)>>

\* C4: after setExpectedHits(h), h in {2,3,4}, whatever config[1][1] was,
\* its low three bits are bit1 only for 2, bit0+bit1 for 3, bit2 only for
\* 4, and getExpectedHits() returns 2, 3, 4 respectively.
C4_HitsRoundTrip ==
  (lastOp.op = "setExpectedHits" /\ lastOp.arg \in {2, 3, 4})
    => /\ LowThreeBits(config) = HitsEncoding(lastOp.arg)
       /\ getExpectedHits(config) = lastOp.arg

\* setExpectedHits(4) has acted on a byte whose upper five bits are set.
C4_Witness ==
  /\ Called(lastOp, "setExpectedHits", 4)
  /\ config[1][1] = 252
  /\ getExpectedHits(config) = 4

\* C5: setExpectedHits(h) with h outside {2,3,4} changes no byte of the
\* configuration image and makes no call on the bus.
C5_InvalidHitsIgnored ==
  [][(lastOp'.op = "setExpectedHits" /\ lastOp'.arg \notin {2, 3, 4})
       => (config' = config /\ trace' = << >> /\ spi' = spi)]_vars

\* setExpectedHits(5) has acted on an image whose three bits are all set.
C5_Witness ==
  /\ Called(lastOp, "setExpectedHits", 5)
  /\ config[1][1] = 255

----------------------------------------------------------------------------
(* Properties of the bus traffic *)

\* tr[from .. from+n-1] is one chained transaction: n byte transfers, all
\* but the last with SPI_CONTINUE.
Chained(tr, from, n) ==
  /\ Len(tr) >= from + n - 1
  /\ \A j \in 0..(n - 1) :
       /\ tr[from + j].kind = "transfer"
       /\ tr[from + j].cont = (j < n - 1)

\* The bytes sent in tr[from .. from+n-1].
Sent(tr, from, n) == [j \in 1..n |-> tr[from + j - 1].out]

\* tr[from ..] is the write of the image cfg: seven transactions and
\* nothing after them, the i-th sending 0x80+i and then cfg[i][0..3].
IsConfigPush(tr, from, cfg) ==
  /\ Len(tr) = from + 34
  /\ \A i \in 0..6 :
       /\ Chained(tr, from + 5 * i, 5)
       /\ Sent(tr, from + 5 * i, 5) = <<128 + i, cfg[i][0], cfg[i][1], cfg[i][2], cfg[i][3]>>

\* C6: updateConfig issues exactly 7 chained transactions, in register
\* order, the i-th made of the opcode 0x80+i and the 4 bytes config[i][0..3]
\* that the image holds when the method is called.
C6_PushIsSevenWrites ==
  [][lastOp'.op = "updateConfig" => IsConfigPush(trace', 1, config)]_vars

\* updateConfig has acted on an image whose config[1][1] is 0xAB: that byte
\* is the third of the second transaction.
C6_Witness ==
  /\ lastOp.op = "updateConfig"
  /\ Len(trace) = 35
  /\ config[1][1] = 171
  /\ trace[8].out = 171

\* C7: readResult(n), n in 0..3, issues one chained transaction of 5
\* bytes, 0xB0+n and four zero bytes, and returns the four bytes received
\* for the zero bytes with the first received as the most significant.
C7_ReadResultBigEndian ==
  (lastOp.op = "readResult" /\ lastOp.arg \in 0..3)
    => /\ Len(trace) = 5
       /\ Chained(trace, 1, 5)
       /\ Sent(trace, 1, 5) = <<176 + lastOp.arg, 0, 0, 0, 0>>
       /\ lastOp.ret = U32(256 * trace[2].in + trace[3].in,
                           256 * trace[4].in + trace[5].in)

\* readResult(3) has returned 0x567800FF from the bytes 56 78 FF 00.
C7_Witness ==
  /\ Called(lastOp, "readResult", 3)
  /\ <<trace[2].in, trace[3].in, trace[4].in, trace[5].in>> = <<86, 120, 255, 0>>
  /\ lastOp.ret = U32(22136, 65280)

\* C8: readResult(n) with n >= 4, or n negative (a signed 8-bit value),
\* returns 0 and makes no call on the bus.
C8_BadRegisterReturnsZero ==
  [][(lastOp'.op = "readResult" /\ lastOp'.arg \notin 0..3)
       => (lastOp'.ret = U32(0, 0) /\ trace' = << >> /\ spi' = spi)]_vars

\* readResult(4) has returned after begin() had set up the bus.
C8_Witness ==
  /\ Called(lastOp, "readResult", 4)
  /\ spi.begun

\* C9: in every chained transfer all bytes but the last are sent with
\* SPI_CONTINUE and the last without, and no public method returns with
\* the chip-select held.
C9_ChipSelectReleased ==
  /\ ~spi.held
  /\ lastOp.op = "testComms" => (Len(trace) = 2 /\ Chained(trace, 1, 2))
  /\ lastOp.op = "readStatus" => (Len(trace) = 3 /\ Chained(trace, 1, 3))
  /\ (lastOp.op = "readResult" /\ lastOp.arg \in 0..3)
       => (Len(trace) = 5 /\ Chained(trace, 1, 5))
  /\ lastOp.op = "updateConfig"
       => (Len(trace) = 35 /\ \A i \in 0..6 : Chained(trace, 1 + 5 * i, 5))
  /\ lastOp.op = "begin"
       => (Len(trace) = 40 /\ \A i \in 0..6 : Chained(trace, 6 + 5 * i, 5))
  /\ lastOp.op \in {"begin", "measure"}
       => \E k \in 1..Len(trace) :
            /\ trace[k].kind = "transfer"
            /\ ~trace[k].cont
            /\ \A j \in 1..(k - 1) : trace[j].kind # "transfer"

\* readStatus has returned: three bytes were sent, the bus is released.
C9_Witness ==
  /\ lastOp.op = "readStatus"
  /\ Len(trace) = 3
  /\ trace[1].cont /\ trace[2].cont /\ ~trace[3].cont
  /\ ~spi.held

\* C10: begin opens and configures the bus (clock divider 6, mode 1, MSB
\* first), then sends the single byte 0x50, then writes the 7 configuration
\* registers: no transfer comes before the bus is configured and no
\* register write before the reset.
C10_BeginOrder ==
  lastOp.op = "begin"
    => /\ Len(trace) = 40
       /\ [j \in 1..4 |-> trace[j].kind]
            = <<"begin", "setClockDivider", "setDataMode", "setBitOrder">>
       /\ [j \in 2..4 |-> trace[j].out] = [j \in 2..4 |-> <<0, 6, 1, 1>>[j]]
       /\ Chained(trace, 5, 1)
       /\ trace[5].out = 80
       /\ IsConfigPush(trace, 6, config)
       /\ spi.begun /\ spi.divider = 6 /\ spi.mode = 1 /\ spi.bitOrder = 1

\* begin has returned: the reset byte is the fifth call, the first
\* register write the sixth.
C10_Witness ==
  /\ lastOp.op = "begin"
  /\ trace[5].out = 80
  /\ trace[6].out = 128
  /\ trace[40].out = config[6][3]

----------------------------------------------------------------------------
(* Properties of the driver on a bus *)

AccessorNames ==
  {"setExpectedHits", "getExpectedHits", "setSingleRes", "setDoubleRes",
   "setQuadRes", "isSingleRes", "isDoubleRes", "isQuadRes"}

\* C11: no accessor makes a call on the bus: a call of an accessor leaves
\* an empty trace, the SPI peripheral and the chip's registers as they
\* were, and the chip's registers change only in begin and updateConfig.
C11_AccessorsOffTheBus ==
  [][/\ lastOp'.op \in AccessorNames
          => (trace' = << >> /\ spi' = spi /\ chip' = chip)
     /\ chip' # chip => lastOp'.op \in {"begin", "updateConfig"}]_vars

\* setExpectedHits(3) has changed the image after a push: the chip still
\* holds the byte pushed.
C11_Witness ==
  /\ Called(lastOp, "setExpectedHits", 3)
  /\ chip.written = 0..6
  /\ chip.regs[1][1] = 170
  /\ config[1][1] = 171

\* C12: testComms issues one chained transfer of 2 bytes, 0xB5 and a zero
\* byte, and returns true exactly if the byte received for the zero byte
\* equals config[1][0].
C12_TestCommsIff ==
  lastOp.op = "testComms"
    => /\ Len(trace) = 2
       /\ Chained(trace, 1, 2)
       /\ Sent(trace, 1, 2) = <<181, 0>>
       /\ lastOp.ret.hi = 0
       /\ lastOp.ret.lo \in {0, 1}
       /\ (lastOp.ret.lo = 1) <=> (trace[2].in = config[1][0])

\* testComms has returned true on the received byte 0xFF.
C12_Witness ==
  /\ lastOp.op = "testComms"
  /\ trace[2].in = 255
  /\ config[1][0] = 255
  /\ lastOp.ret.lo = 1

\* C13: readStatus issues one chained transfer of 3 bytes, 0xB4 and two
\* zero bytes, and returns the 16-bit value whose high byte is the first
\* byte received for the zero bytes and whose low byte is the second.
C13_ReadStatusBigEndian ==
  lastOp.op = "readStatus"
    => /\ Len(trace) = 3
       /\ Chained(trace, 1, 3)
       /\ Sent(trace, 1, 3) = <<180, 0, 0>>
       /\ lastOp.ret = U32(0, 256 * trace[2].in + trace[3].in)

\* readStatus has returned 0x12FF from the bytes 12 FF.
C13_Witness ==
  /\ lastOp.op = "readStatus"
  /\ trace[2].in = 18
  /\ trace[3].in = 255
  /\ lastOp.ret = U32(0, 4863)

\* The bits of the two accessor bytes that no accessor works on.
UpperFive(byte) == byte \div 8

OtherSix(byte) == <<byte % 16, byte \div 64>>

\* C19: no method changes any byte of the image other than config[1][1]
\* and config[6][2]; of config[1][1] only bits 0-2 change, and only in
\* setExpectedHits; of config[6][2] only bits 4-5 change, and only in
\* setSingleRes, setDoubleRes and setQuadRes.
C19_ImageFrame ==
  [][/\ \A i \in 0..6, j \in 0..3 :
          <<i, j>> \notin {<<1, 1>>, <<6, 2>>} => config'[i][j] = config[i][j]
     /\ UpperFive(config'[1][1]) = UpperFive(config[1][1])
     /\ OtherSix(config'[6][2]) = OtherSix(config[6][2])
     /\ config'[1][1] # config[1][1] => lastOp'.op = "setExpectedHits"
     /\ config'[6][2] # config[6][2]
          => lastOp'.op \in {"setSingleRes", "setDoubleRes", "setQuadRes"}]_vars

\* setExpectedHits(4) has acted after begin: the upper five bits 10101 of
\* config[1][1] are still there.
C19_Witness ==
  /\ Called(lastOp, "setExpectedHits", 4)
  /\ config[1][1] = 172
  /\ spi.begun

----------------------------------------------------------------------------
(* Properties of the driver with the chip on the bus *)

\* The image has been pushed to the chip at least once: begin and
\* updateConfig are the only writers of the chip's registers.
Pushed == chip.written # {}

\* C17: with the chip on the bus, a testComms called once the image has been
\* pushed (by begin or by updateConfig) returns true, whatever accessor calls
\* came before or after the push; and right after updateConfig the chip's
\* registers 0..6 hold the cached image.
C17_PushedImageReadsBack ==
  /\ (lastOp.op = "testComms" /\ Pushed) => lastOp.ret = RetBool(TRUE)
  /\ lastOp.op = "updateConfig" =>
        /\ chip.written = 0..(NUM_CONFIG_REGS - 1)
        /\ chip.regs = config

\* testComms answers true although a setter has changed the image since the
\* push, so that the chip no longer holds it.
C17_Witness ==
  /\ lastOp.op = "testComms"
  /\ lastOp.ret = RetBool(TRUE)
  /\ Pushed
  /\ chip.regs # config
  /\ chip.regs[1][0] = config[1][0]

----------------------------------------------------------------------------
(* Properties of the conversion *)

Abs(n) == IF n < 0 THEN -n ELSE n

\* f is g to within 4 units in the last place.
Near(f, g) ==
  IF f.mant = 0 \/ g.mant = 0 THEN f = g
  ELSE IF f.exp = g.exp THEN Abs(f.mant - g.mant) <= 4
  ELSE IF f.exp = g.exp + 1 THEN Abs(2 * f.mant - g.mant) <= 4
  ELSE IF g.exp = f.exp + 1 THEN Abs(2 * g.mant - f.mant) <= 4
  ELSE FALSE

\* input * 10^6 / (4,000,000 * 2^16), which is input / 2^18.
Microseconds(input) ==
  LET f == FloatOfU32(input)
  IN IF f.mant = 0 THEN F32Zero ELSE F32(f.mant, f.exp - 18)

\* 1,000,000.0 and 576.0 as floats.
OneSecondMicros == F32(16000000, -4)

WrappedMicros == F32(9437184, -14)

\* C16, as stated: measConv of the value 4,000,000 * 65536, passed through
\* the uint32_t parameter, returns 1,000,000 microseconds, and measConv(0)
\* returns 0.
C16_OneSecondConverts ==
  lastOp.op = "measConv" =>
    /\ conv.raw = OneSecondRaw => Near(conv.result, OneSecondMicros)
    /\ conv.raw = Raw(0, 0, 0) => conv.result = F32Zero

\* C16, amended: the parameter receives the caller's value modulo 2^32, and
\* measConv returns parameter * 10^6 / (4,000,000 * 2^16) microseconds to
\* within the floating-point tolerance; for 4,000,000 * 65536 the parameter
\* is 150,994,944 and the result 576 microseconds; measConv(0) returns 0.
C16_ConvertsParameter ==
  lastOp.op = "measConv" =>
    /\ conv.input = U32(conv.raw.hi, conv.raw.lo)
    /\ Near(conv.result, Microseconds(conv.input))
    /\ lastOp.ret = FloatBits(conv.result)
    /\ conv.raw = OneSecondRaw =>
         /\ conv.input = U32(2304, 0)
         /\ Near(conv.result, WrappedMicros)
    /\ conv.raw = Raw(0, 0, 0) => conv.result = F32Zero

\* measConv has been given one second of clock periods and has returned
\* 576 microseconds.
C16_Witness ==
  /\ lastOp.op = "measConv"
  /\ conv.raw = OneSecondRaw
  /\ Near(conv.result, WrappedMicros)

----------------------------------------------------------------------------
(* Termination of the resolution setters *)

\* C20: every call of setSingleRes, setDoubleRes or setQuadRes returns, and
\* the calls between the setters are never nested more than one level deep:
\* a nested call is always a disabling call of setDoubleRes or setQuadRes,
\* and a disabling call makes no call.
C20_SettersTerminate ==
  /\ [](/\ Len(stack) <= 2
        /\ \A k \in 2..Len(stack) :
             /\ stack[k].fn \in {"setDoubleRes", "setQuadRes"}
             /\ ~stack[k].on
             /\ NestedCalls(stack[k].fn, stack[k].on) = << >>)
  /\ (stack # << >>) ~> (stack = << >>)

\* setQuadRes(false) is running inside setDoubleRes(true).
C20_Witness ==
  /\ Len(stack) = 2
  /\ stack[1].fn = "setDoubleRes" /\ stack[1].on
  /\ stack[2].fn = "setQuadRes" /\ ~stack[2].on

====
